---- MODULE Spec2Model ----
(***************************************************************************)
(* A model of git-commit-large-files.py: the batch planner                 *)
(* (create_batches), the batch simplifier (simplify_batch_files), the      *)
(* staging-command chunker (batch_git_add_files) and the sequential        *)
(* add / commit / push pipeline of main().                                 *)
(*                                                                         *)
(* A file entry is the record [path, size, dir] built by                   *)
(* get_git_status_files.  Lists are sequences, in the order the code       *)
(* keeps them.                                                             *)
(***************************************************************************)
EXTENDS Integers, Sequences, FiniteSets, TLC

VARIABLES
    pc,                 \* position of the run (or of a function-level specification)
    git_files,          \* accepted entries (main: git_files), in discovery order
    max_batch_size,     \* create_batches' max_batch_size
    batches,            \* the plan, a sequence of batches (sequences of entries)
    batch_files,        \* simplify_batch_files' batch_files
    simplified,         \* its result [files, dirs]
    file_paths,         \* batch_git_add_files' file_paths
    max_command_length, \* batch_git_add_files' max_command_length
    chunks,             \* the chunks batch_git_add_files builds (its local batches)
    tree,               \* the pending files of the working tree, in status order
    skipped_files,      \* main: skipped_files
    original_cwd,       \* GitBatchCommiter.original_cwd
    cwd,                \* the process working directory
    saved_cwd,          \* original_cwd of execute_git_add_commit / execute_git_push
    commit_info_abs,    \* the template argument is an absolute path
    total_batches,      \* main: total_batches
    batch_index,        \* main: i
    chunk_index,        \* batch_git_add_files: i + 1
    temp_commit_file,   \* 0: the template path; i: "<template>.batch<i>"
    commit_message,     \* 0: the template text; i: the text with the marker i/N
    successful_batches, \* main: successful_batches
    staged,             \* the paths staged in the index
    commits,            \* the commits made, oldest first
    invoked,            \* the external git invocations made, oldest first
    temp_files,         \* the message files on disk: <<directory, 0>> the template,
                        \* <<directory, i>> the file derived for batch i
    exit_code,          \* the process exit status, -1 while running
    outcome             \* why the process ended

fn_vars == <<git_files, max_batch_size, batches, batch_files, simplified,
             file_paths, max_command_length, chunks>>

run_vars == <<tree, skipped_files, original_cwd, cwd, saved_cwd, commit_info_abs,
              total_batches, batch_index, chunk_index, temp_commit_file,
              commit_message, successful_batches, staged, commits, invoked,
              temp_files, exit_code, outcome>>

vars == <<pc, fn_vars, run_vars>>

----------------------------------------------------------------------------
(* Bounds of the function-level specifications *)

\* longest file list handed to create_batches / simplify_batch_files
MaxFiles == 3
\* largest file size drawn (abstract bytes)
MaxSize == 3
\* largest max_batch_size drawn
MaxBatch == 4
\* longest token list handed to batch_git_add_files
MaxTokens == 3
\* largest max_command_length drawn
MaxCmdLen == 15

----------------------------------------------------------------------------
(* Generic helpers *)

Range(s) == {s[k] : k \in DOMAIN s}

RECURSIVE SumSizes(_)
\* sum(f["size"] for f in files)
SumSizes(files) ==
    IF files = <<>> THEN 0 ELSE Head(files).size + SumSizes(Tail(files))

RECURSIVE Concat(_)
\* the concatenation of a sequence of sequences
Concat(ss) == IF ss = <<>> THEN <<>> ELSE Head(ss) \o Concat(Tail(ss))

Paths(files) == [k \in DOMAIN files |-> files[k].path]

PathSet(files) == {files[k].path : k \in DOMAIN files}

RECURSIVE InsertStable(_, _, _, _)
\* x inserted into the sorted sequence s behind every element that does not
\* sort strictly after it: the step of a stable sort
InsertStable(x, s, key, reverse) ==
    IF s = <<>> THEN <<x>>
    ELSE IF (IF reverse THEN key[Head(s)] >= key[x] ELSE key[Head(s)] <= key[x])
         THEN <<Head(s)>> \o InsertStable(x, Tail(s), key, reverse)
         ELSE <<x>> \o s

RECURSIVE SortedFrom(_, _, _, _)
SortedFrom(s, acc, key, reverse) ==
    IF s = <<>> THEN acc
    ELSE SortedFrom(Tail(s), InsertStable(Head(s), acc, key, reverse), key, reverse)

\* Python's sorted(s, key=..., reverse=...): stable in both directions
Sorted(s, key, reverse) == SortedFrom(s, <<>>, key, reverse)

----------------------------------------------------------------------------
(* organize_files_by_directory *)

RECURSIVE DirKeysFrom(_, _)
DirKeysFrom(files, acc) ==
    IF files = <<>> THEN acc
    ELSE DirKeysFrom(Tail(files),
                     IF Head(files).dir \in Range(acc) THEN acc
                     ELSE Append(acc, Head(files).dir))

\* the keys of the defaultdicts, in insertion (first appearance) order
DirKeys(files) == DirKeysFrom(files, <<>>)

\* dir_files[d]
DirFiles(files, d) == SelectSeq(files, LAMBDA f : f.dir = d)

\* dir_sizes[d]
DirSize(files, d) == SumSizes(DirFiles(files, d))

organize_files_by_directory(files) ==
    [keys      |-> DirKeys(files),
     dir_files |-> [d \in Range(DirKeys(files)) |-> DirFiles(files, d)],
     dir_sizes |-> [d \in Range(DirKeys(files)) |-> DirSize(files, d)]]

----------------------------------------------------------------------------
(* create_batches *)

\* line 160 without the size test: every file goes into the current batch
FitsUnchecked(current_batch_size, size, max) == TRUE

\* the test of line 160: the file still goes into the current batch
Fits(current_batch_size, size, max) == current_batch_size + size <= max

RECURSIVE PackFrom(_, _, _, _, _)
\* the loop of lines 159-167 over one directory's files, then lines 168-169
PackFrom(files, current_batch, current_batch_size, out, max) ==
    IF files = <<>>
    THEN IF current_batch # <<>> THEN Append(out, current_batch) ELSE out
    ELSE IF Fits(current_batch_size, Head(files).size, max)
         THEN PackFrom(Tail(files), Append(current_batch, Head(files)),
                       current_batch_size + Head(files).size, out, max)
         ELSE PackFrom(Tail(files), <<Head(files)>>, Head(files).size,
                       IF current_batch # <<>> THEN Append(out, current_batch) ELSE out,
                       max)

\* line 158 left out: the files are packed in the order of the accepted list
SortFilesKeepOrder(files) == files

\* files.sort(key=size, reverse=True) of line 158
SortFilesDesc(files) ==
    Sorted(files, [f \in Range(files) |-> f.size], TRUE)

\* lines 155-169 for one directory
PackDir(files, max) == PackFrom(SortFilesDesc(files), <<>>, 0, <<>>, max)

\* line 148 left out: the directories are visited in insertion order
SortedDirsUnsorted(org) == org.keys

\* line 148
SortedDirsAsc(org) == Sorted(org.keys, org.dir_sizes, FALSE)

\* the test of line 150 with < in place of <=
Phase1DirsStrict(org, max) ==
    SelectSeq(SortedDirsAsc(org), LAMBDA d : org.dir_sizes[d] < max)

\* lines 149-152: the directories emitted whole, in the order they are emitted
Phase1Dirs(org, max) ==
    SelectSeq(SortedDirsAsc(org), LAMBDA d : org.dir_sizes[d] <= max)

\* line 152 left out: every directory is packed again in the second loop
Phase2DirsKeepAll(org, max) == Sorted(SortedDirsAsc(org), org.dir_sizes, TRUE)

\* lines 149-153: the directories left over, re-sorted descending
Phase2Dirs(org, max) ==
    Sorted(SelectSeq(SortedDirsAsc(org), LAMBDA d : ~(org.dir_sizes[d] <= max)),
           org.dir_sizes, TRUE)

Phase1Batches(org, max) ==
    [k \in DOMAIN Phase1Dirs(org, max) |-> org.dir_files[Phase1Dirs(org, max)[k]]]

Phase2Batches(org, max) ==
    Concat([k \in DOMAIN Phase2Dirs(org, max) |->
                PackDir(org.dir_files[Phase2Dirs(org, max)[k]], max)])

create_batches(files, max) ==
    IF files = <<>> THEN <<>>
    ELSE Phase1Batches(organize_files_by_directory(files), max)
         \o Phase2Batches(organize_files_by_directory(files), max)

----------------------------------------------------------------------------
(* simplify_batch_files *)

\* line 187 without the comparison: every directory of the batch becomes a token
WholeDirAlways(batch, all, d) == TRUE

\* line 187: the batch holds every file the full set has in directory d
WholeDir(batch, all, d) ==
    PathSet(DirFiles(batch, d)) = PathSet(DirFiles(all, d))

RECURSIVE SimplifyFrom(_, _, _, _, _)
\* the loop of lines 181-190 over the batch's directories
SimplifyFrom(keys, batch, all, simplified_files, simplified_dirs) ==
    IF keys = <<>>
    THEN [files |-> simplified_files, dirs |-> simplified_dirs]
    ELSE IF Head(keys) = "."
         THEN SimplifyFrom(Tail(keys), batch, all,
                           simplified_files \o Paths(DirFiles(batch, Head(keys))),
                           simplified_dirs)
         ELSE IF WholeDir(batch, all, Head(keys))
              THEN SimplifyFrom(Tail(keys), batch, all, simplified_files,
                                Append(simplified_dirs, Head(keys)))
              ELSE SimplifyFrom(Tail(keys), batch, all,
                                simplified_files \o Paths(DirFiles(batch, Head(keys))),
                                simplified_dirs)

simplify_batch_files(batch, all) ==
    SimplifyFrom(DirKeys(batch), batch, all, <<>>, <<>>)

----------------------------------------------------------------------------
(* batch_git_add_files: the chunks of lines 231-246 *)

\* len("git add ")
BaseCommandLength == 8

\* len(file_path).  The names q and r abbreviate paths of 16000 characters,
\* so that two of them do not fit one command of 32000 characters.
PathLen(p) == CASE p = "q" -> 16000 [] p = "r" -> 16000 [] OTHER -> Len(p)

\* line 237 without the command prefix
OverflowsNoBase(current_length, file_length, max) ==
    current_length + file_length > max

\* line 237: the token no longer fits the current chunk
Overflows(current_length, file_length, max) ==
    current_length + file_length + BaseCommandLength > max

RECURSIVE ChunkFrom(_, _, _, _, _)
\* the loop of lines 235-244, then lines 245-246
ChunkFrom(paths, current_batch, current_length, out, max) ==
    IF paths = <<>>
    THEN IF current_batch # <<>> THEN Append(out, current_batch) ELSE out
    ELSE IF Overflows(current_length, PathLen(Head(paths)) + 1, max)
         THEN ChunkFrom(Tail(paths), <<Head(paths)>>, PathLen(Head(paths)) + 1,
                        IF current_batch # <<>> THEN Append(out, current_batch) ELSE out,
                        max)
         ELSE ChunkFrom(Tail(paths), Append(current_batch, Head(paths)),
                        current_length + PathLen(Head(paths)) + 1, out, max)

\* lines 229-246
AddChunks(paths, max) ==
    IF paths = <<>> THEN <<>> ELSE ChunkFrom(paths, <<>>, 0, <<>>, max)

----------------------------------------------------------------------------
(* Inputs of the function-level specifications *)

\* the paths entries are drawn from
PlanPaths == {"a/x", "a/y", "a/z", "a/s/w", "r"}

\* file_path.parent relative to the repository root, "." for the root itself
\* (lines 76-80 and 99-103)
ParentDir(p) ==
    CASE p \in {"a/x", "a/y", "a/z"} -> "a"
      [] p = "a/s/w" -> "a/s"
      [] OTHER -> "."

Entry(p, z) == [path |-> p, size |-> z, dir |-> ParentDir(p)]

PlanEntries == {Entry(p, z) : p \in PlanPaths, z \in 0 .. MaxSize}

\* a list of entries with pairwise different paths
DistinctPaths(s) == \A k, j \in DOMAIN s : s[k].path = s[j].path => k = j

FileLists ==
    UNION {{s \in [1 .. n -> PlanEntries] : DistinctPaths(s)} : n \in 0 .. MaxFiles}

\* the lists made of entries of the list all, in any order
ListsWithin(all) ==
    UNION {{b \in [1 .. n -> Range(all)] : DistinctPaths(b)} : n \in 0 .. Len(all)}

TokenSet == {"a", "bb", "a/x", "dddd"}

TokenLists == UNION {[1 .. n -> TokenSet] : n \in 0 .. MaxTokens}

NoPlan == <<>>
NoSimplified == [files |-> <<>>, dirs |-> <<>>]

\* the state of a run that has not started: the function-level specifications
\* leave it alone
NoRun ==
    /\ tree = <<>>
    /\ skipped_files = <<>>
    /\ original_cwd = "repo"
    /\ cwd = "repo"
    /\ saved_cwd = "repo"
    /\ commit_info_abs = FALSE
    /\ total_batches = 0
    /\ batch_index = 0
    /\ chunk_index = 0
    /\ temp_commit_file = 0
    /\ commit_message = 0
    /\ successful_batches = 0
    /\ staged = {}
    /\ commits = <<>>
    /\ invoked = <<>>
    /\ temp_files = {}
    /\ exit_code = -1
    /\ outcome = "running"

----------------------------------------------------------------------------
(* create_batches as a function: SpecPlan *)

InitPlan ==
    /\ pc = "plan_input"
    /\ git_files \in FileLists
    /\ max_batch_size \in 0 .. MaxBatch
    /\ batches = NoPlan
    /\ batch_files = <<>>
    /\ simplified = NoSimplified
    /\ file_paths = <<>>
    /\ max_command_length = 0
    /\ chunks = <<>>
    /\ NoRun

PlanStep ==
    /\ pc = "plan_input"
    /\ batches' = create_batches(git_files, max_batch_size)
    /\ pc' = "planned"
    /\ UNCHANGED <<git_files, max_batch_size, batch_files, simplified,
                   file_paths, max_command_length, chunks, run_vars>>

NextPlan == PlanStep

SpecPlan == InitPlan /\ [][NextPlan]_vars

\* C1: every batch of the plan has an aggregate size within max_batch_size,
\* or is a single file whose own size exceeds max_batch_size.
C1_BatchWithinBudget ==
    pc = "planned" =>
        \A k \in DOMAIN batches :
            \/ SumSizes(batches[k]) <= max_batch_size
            \/ /\ Len(batches[k]) = 1
               /\ batches[k][1].size > max_batch_size

\* a plan holding both a filled batch of several files and an oversize single file
C1_Witness ==
    /\ pc = "planned"
    /\ max_batch_size >= 2
    /\ \A f \in Range(git_files) : f.size >= 1
    /\ \E k \in DOMAIN batches :
          Len(batches[k]) = 1 /\ batches[k][1].size > max_batch_size
    /\ \E k \in DOMAIN batches :
          Len(batches[k]) >= 2 /\ SumSizes(batches[k]) = max_batch_size

\* the places <<k, j>> of the plan that hold path p
PlacesOf(p) ==
    {kj \in {<<k, j>> : k \in DOMAIN batches, j \in 1 .. MaxFiles + 1} :
        kj[2] \in DOMAIN batches[kj[1]] /\ batches[kj[1]][kj[2]].path = p}

\* C2: the batches partition the accepted list: every accepted file is at
\* exactly one place of the plan, and every member of a batch is an accepted file.
C2_Partition ==
    pc = "planned" =>
        /\ \A f \in Range(git_files) : Cardinality(PlacesOf(f.path)) = 1
        /\ \A k \in DOMAIN batches : Range(batches[k]) \subseteq Range(git_files)
        /\ \A k \in DOMAIN batches : batches[k] # <<>>

\* a plan with a whole-directory batch and a split directory
C2_Witness ==
    /\ pc = "planned"
    /\ max_batch_size >= 1
    /\ \A f \in Range(git_files) : f.size >= 1
    /\ Len(git_files) >= 3
    /\ Len(batches) >= 3
    /\ \E k \in DOMAIN batches : SumSizes(batches[k]) <= max_batch_size
    /\ \E k, j \in DOMAIN batches :
          k # j /\ batches[k][1].dir = batches[j][1].dir

----------------------------------------------------------------------------
(* simplify_batch_files as a function: SpecSimplify *)

InitSimplify ==
    /\ pc = "simplify_input"
    /\ git_files \in FileLists
    /\ max_batch_size = 0
    /\ batches = NoPlan
    /\ batch_files = <<>>
    /\ simplified = NoSimplified
    /\ file_paths = <<>>
    /\ max_command_length = 0
    /\ chunks = <<>>
    /\ NoRun

SimplifyStep ==
    /\ pc = "simplify_input"
    /\ \E b \in ListsWithin(git_files) :
          /\ batch_files' = b
          /\ simplified' = simplify_batch_files(b, git_files)
    /\ pc' = "simplified"
    /\ UNCHANGED <<git_files, max_batch_size, batches,
                   file_paths, max_command_length, chunks, run_vars>>

NextSimplify == SimplifyStep

SpecSimplify == InitSimplify /\ [][NextSimplify]_vars

\* the paths a simplified output stands for: its file paths, and for every
\* directory token the paths the full set has in that directory
Expanded(simp, all) ==
    Range(simp.files) \cup UNION {PathSet(DirFiles(all, d)) : d \in Range(simp.dirs)}

\* C4: expanding the directory tokens against the full set and adding the
\* simplified file paths gives exactly the batch's paths, no path is listed twice,
\* and a token stands only for a directory other than "." whose files in the
\* batch are its files in the full set.
C4_SimplifySound ==
    pc = "simplified" =>
        /\ Expanded(simplified, git_files) = PathSet(batch_files)
        /\ \A k, j \in DOMAIN simplified.files :
              simplified.files[k] = simplified.files[j] => k = j
        /\ \A k, j \in DOMAIN simplified.dirs :
              simplified.dirs[k] = simplified.dirs[j] => k = j
        /\ \A d \in Range(simplified.dirs) :
              /\ d # "."
              /\ Range(simplified.files) \cap PathSet(DirFiles(git_files, d)) = {}
              /\ PathSet(DirFiles(batch_files, d)) = PathSet(DirFiles(git_files, d))

\* a batch with a complete directory, a partial directory and nothing else
C4_Witness ==
    /\ pc = "simplified"
    /\ Len(simplified.dirs) = 1
    /\ Len(simplified.files) = 1
    /\ ParentDir(simplified.files[1]) # "."
    /\ Len(batch_files) < Len(git_files)

----------------------------------------------------------------------------
(* the chunks of batch_git_add_files as a function: SpecChunk *)

InitChunk ==
    /\ pc = "chunk_input"
    /\ git_files = <<>>
    /\ max_batch_size = 0
    /\ batches = NoPlan
    /\ batch_files = <<>>
    /\ simplified = NoSimplified
    /\ file_paths \in TokenLists
    /\ max_command_length \in 0 .. MaxCmdLen
    /\ chunks = <<>>
    /\ NoRun

ChunkStep ==
    /\ pc = "chunk_input"
    /\ chunks' = AddChunks(file_paths, max_command_length)
    /\ pc' = "chunked"
    /\ UNCHANGED <<git_files, max_batch_size, batches, batch_files, simplified,
                   file_paths, max_command_length, run_vars>>

NextChunk == ChunkStep

SpecChunk == InitChunk /\ [][NextChunk]_vars

RECURSIVE TokensLength(_)
\* the sum over the tokens of (token length + 1)
TokensLength(chunk) ==
    IF chunk = <<>> THEN 0 ELSE PathLen(Head(chunk)) + 1 + TokensLength(Tail(chunk))

\* C5: the chunks concatenated in order are the input list, no chunk is empty,
\* and len("git add ") plus the tokens' lengths is within max_command_length
\* for every chunk but one made of a single token that alone exceeds it.
C5_ChunksCompleteAndFit ==
    pc = "chunked" =>
        /\ Concat(chunks) = file_paths
        /\ \A k \in DOMAIN chunks :
              /\ chunks[k] # <<>>
              /\ \/ BaseCommandLength + TokensLength(chunks[k]) <= max_command_length
                 \/ /\ Len(chunks[k]) = 1
                    /\ BaseCommandLength + PathLen(chunks[k][1]) + 1 > max_command_length

\* a chunk of two tokens that fills the command exactly, then a token too long alone
C5_Witness ==
    /\ pc = "chunked"
    /\ Len(chunks) = 2
    /\ Len(chunks[1]) = 2
    /\ BaseCommandLength + TokensLength(chunks[1]) = max_command_length
    /\ BaseCommandLength + TokensLength(chunks[2]) > max_command_length

----------------------------------------------------------------------------
(* The run of main(): inputs *)

\* 50 * 1024 * 1024, the ceiling of line 125
MaxFileSize == 52428800
\* 100 * 1024 * 1024, the default of line 143
DefaultMaxBatchSize == 104857600
\* the default of line 228
DefaultMaxCommandLength == 32000

\* the paths a working tree may hold pending, in the order git status lists them
PipePaths == <<"a/s/w", "a/x", "a/y", "a/z", "q", "r">>

\* the sizes a pending path is given: -1 for a path that is not pending,
\* 1 or 2 bytes, exactly the ceiling, and one byte above it
SizeChoices(p) ==
    CASE p = "a/s/w" -> {-1, 2}
      [] p = "a/x"   -> {-1, 1, MaxFileSize}
      [] p = "a/y"   -> {-1, 1, MaxFileSize, MaxFileSize + 1}
      [] p = "a/z"   -> {-1, MaxFileSize}
      [] p = "q"     -> {-1, 1}
      [] OTHER       -> {-1, 1, MaxFileSize + 1}

TreeSizes ==
    {f \in [Range(PipePaths) -> {-1, 1, 2, MaxFileSize, MaxFileSize + 1}] :
        \A p \in Range(PipePaths) : f[p] \in SizeChoices(p)}

\* what get_git_status_files returns for a tree (lines 53-84)
TreeOf(f) ==
    SelectSeq([k \in DOMAIN PipePaths |-> Entry(PipePaths[k], f[PipePaths[k]])],
              LAMBDA e : e.size # -1)

\* the directories a path lies beneath
AncestorDirs(p) ==
    CASE p = "a/s/w" -> {"a/s", "a"}
      [] p \in {"a/x", "a/y", "a/z"} -> {"a"}
      [] OTHER -> {}

----------------------------------------------------------------------------
(* The run of main(): helpers *)

\* the filter of lines 124-129
Accepted(files) == SelectSeq(files, LAMBDA f : ~(f.size > MaxFileSize))
Skipped(files) == Paths(SelectSeq(files, LAMBDA f : f.size > MaxFileSize))

\* the directory a relative template path (and the derived paths) resolve in
MessageDir(d) == IF commit_info_abs THEN "abs" ELSE d

\* the template file is where the process looks for it from directory d
TemplateVisible(d) == <<MessageDir(d), 0>> \in temp_files

\* the suffix of line 203 counted from 0
DerivedMarkerFromZero(i) == i - 1

\* the marker i/N of line 203
DerivedMarker(i) == i

\* lines 334-338 without the comparison with the template path
RemoveTempUnguarded(files, d, f) == files \ {<<MessageDir(d), f>>}

\* os.path.exists(temp_commit_file) and os.remove of lines 334-338, from directory d
RemoveTemp(files, d, f) == IF f # 0 THEN files \ {<<MessageDir(d), f>>} ELSE files

\* cleanup_temp_files (lines 218-225), from directory d
CleanupTempFiles(files, d, total) ==
    files \ {<<MessageDir(d), k>> : k \in 1 .. total}

CommittedPaths == UNION {commits[k].files : k \in DOMAIN commits}

\* what "git add" of the tokens stages: the pending paths named by a token or
\* lying beneath a directory token (lines 250-261)
StageEffect(tokens) ==
    {p \in PathSet(tree) \ CommittedPaths :
        \E k \in DOMAIN tokens : tokens[k] = p \/ tokens[k] \in AncestorDirs(p)}

\* the file "git commit -F" is given is readable from the working directory
MessageReadable ==
    IF temp_commit_file = 0 THEN TemplateVisible(cwd)
    ELSE <<MessageDir(cwd), temp_commit_file>> \in temp_files

\* the loop goes on after a failed batch: the break of line 442 left out
ContinueAfterFailedBatch(i) ==
    IF i < total_batches THEN [pc |-> "derive", i |-> i + 1]
    ELSE [pc |-> "after_loop", i |-> i]

\* lines 440-442: a failed batch ends the loop
AfterFailedBatch(i) == [pc |-> "after_loop", i |-> i]

\* the loop takes the committed batch again
AfterCommittedBatchRepeat(i) == [pc |-> "derive", i |-> i]

\* lines 433-439 and the loop header: after a committed batch
AfterCommittedBatch(i) ==
    IF i < total_batches THEN [pc |-> "derive", i |-> i + 1]
    ELSE [pc |-> "after_loop", i |-> i]

\* push whatever the loop did
PushAlways == TRUE

\* line 443
AllSucceeded == successful_batches = total_batches

\* an exit status that tells a failed batch
StatusTellsFailure(successful, total) == IF successful = total THEN 0 ELSE 1

\* main returns at line 476 and the interpreter exits with status 0
FinalStatus(successful, total) == 0

Exit(code, why) ==
    /\ pc' = "exited"
    /\ exit_code' = code
    /\ outcome' = why

------------------------------------------------------------

------------------------------------------------------------

------------------------------------------------------------

----------------------------------------------------------------------------
(* The run of main(): Spec *)

Init ==
    /\ pc = "start"
    /\ tree \in {TreeOf(f) : f \in TreeSizes}
    /\ original_cwd \in {"repo", "sub"}
    /\ cwd = original_cwd
    /\ saved_cwd = original_cwd
    /\ commit_info_abs \in BOOLEAN
    /\ git_files = <<>>
    /\ skipped_files = <<>>
    /\ max_batch_size = DefaultMaxBatchSize
    /\ max_command_length = DefaultMaxCommandLength
    /\ batches = NoPlan
    /\ batch_files = <<>>
    /\ simplified = NoSimplified
    /\ file_paths = <<>>
    /\ chunks = <<>>
    /\ total_batches = 0
    /\ batch_index = 0
    /\ chunk_index = 0
    /\ temp_commit_file = 0
    /\ commit_message = 0
    /\ successful_batches = 0
    /\ staged = {}
    /\ commits = <<>>
    /\ invoked = <<>>
    /\ temp_files \in {{}, {<<MessageDir(original_cwd), 0>>}}
    /\ exit_code = -1
    /\ outcome = "running"

\* lines 371-373: the argument count is wrong
StartUsage ==
    /\ pc = "start"
    /\ Exit(1, "usage")
    /\ UNCHANGED <<git_files, max_batch_size, batches, batch_files,
                   simplified, file_paths, max_command_length, chunks, tree,
                   skipped_files, original_cwd, cwd, saved_cwd,
                   commit_info_abs, total_batches, batch_index, chunk_index,
                   temp_commit_file, commit_message, successful_batches,
                   staged, commits, invoked, temp_files>>

\* lines 375-377: the template file does not exist
StartNoTemplate ==
    /\ pc = "start"
    /\ ~TemplateVisible(cwd)
    /\ Exit(1, "no_template")
    /\ UNCHANGED <<git_files, max_batch_size, batches, batch_files,
                   simplified, file_paths, max_command_length, chunks, tree,
                   skipped_files, original_cwd, cwd, saved_cwd,
                   commit_info_abs, total_batches, batch_index, chunk_index,
                   temp_commit_file, commit_message, successful_batches,
                   staged, commits, invoked, temp_files>>

\* line 378: the interrupt handler is installed, the run begins
StartOk ==
    /\ pc = "start"
    /\ TemplateVisible(cwd)
    /\ pc' = "discover"
    /\ UNCHANGED <<git_files, max_batch_size, batches, batch_files,
                   simplified, file_paths, max_command_length, chunks, tree,
                   skipped_files, original_cwd, cwd, saved_cwd,
                   commit_info_abs, total_batches, batch_index, chunk_index,
                   temp_commit_file, commit_message, successful_batches,
                   staged, commits, invoked, temp_files, exit_code, outcome>>

\* line 379: no repository is found (lines 116-118) or the status query fails
\* (lines 85-87, the directory changed at line 45); main returns at line 383 and
\* __exit__ restores the working directory
DiscoverNothing ==
    /\ pc = "discover"
    /\ cwd' = original_cwd
    /\ Exit(0, "nothing")
    /\ UNCHANGED <<git_files, max_batch_size, batches, batch_files,
                   simplified, file_paths, max_command_length, chunks, tree,
                   skipped_files, original_cwd, saved_cwd, commit_info_abs,
                   total_batches, batch_index, chunk_index, temp_commit_file,
                   commit_message, successful_batches, staged, commits,
                   invoked, temp_files>>

\* lines 379-388: discovery and the size filter; main returns when nothing is accepted
Discover ==
    /\ pc = "discover"
    /\ git_files' = Accepted(tree)
    /\ skipped_files' = Skipped(tree)
    /\ IF Accepted(tree) = <<>>
       THEN Exit(0, "nothing")
       ELSE pc' = "plan" /\ UNCHANGED <<exit_code, outcome>>
    /\ UNCHANGED <<max_batch_size, batches, batch_files, simplified,
                   file_paths, max_command_length, chunks, tree,
                   original_cwd, cwd, saved_cwd, commit_info_abs,
                   total_batches, batch_index, chunk_index, temp_commit_file,
                   commit_message, successful_batches, staged, commits,
                   invoked, temp_files>>

\* lines 389-412: the plan
Plan ==
    /\ pc = "plan"
    /\ batches' = create_batches(git_files, max_batch_size)
    /\ total_batches' = Len(batches')
    /\ successful_batches' = 0
    /\ IF batches' = <<>>
       THEN Exit(0, "nothing") /\ UNCHANGED batch_index
       ELSE pc' = "derive" /\ batch_index' = 1 /\ UNCHANGED <<exit_code, outcome>>
    /\ UNCHANGED <<git_files, max_batch_size, batch_files, simplified,
                   file_paths, max_command_length, chunks, tree,
                   skipped_files, original_cwd, cwd, saved_cwd,
                   commit_info_abs, chunk_index, temp_commit_file,
                   commit_message, staged, commits, invoked, temp_files>>

\* lines 195-200: reading the template raises; nothing catches it, __exit__
\* restores the working directory and the interpreter exits with status 1
DeriveUnreadable ==
    /\ pc = "derive"
    /\ cwd' = original_cwd
    /\ Exit(1, "crash")
    /\ UNCHANGED <<git_files, max_batch_size, batches, batch_files,
                   simplified, file_paths, max_command_length, chunks, tree,
                   skipped_files, original_cwd, saved_cwd, commit_info_abs,
                   total_batches, batch_index, chunk_index, temp_commit_file,
                   commit_message, successful_batches, staged, commits,
                   invoked, temp_files>>

\* lines 414-300: the message of batch i is derived (written: the derived file
\* could be written, lines 209-214), the batch is simplified, the process enters
\* the repository and the chunks are built
BeginBatch(written) ==
    /\ pc = "derive"
    /\ TemplateVisible(cwd)
    /\ LET derived == total_batches # 1 /\ written
           simp == simplify_batch_files(batches[batch_index], git_files)
       IN  /\ temp_commit_file' = IF derived THEN batch_index ELSE 0
           /\ commit_message' = IF derived THEN DerivedMarker(batch_index) ELSE 0
           /\ temp_files' = IF derived
                            THEN temp_files \cup {<<MessageDir(cwd), batch_index>>}
                            ELSE temp_files
           /\ batch_files' = batches[batch_index]
           /\ simplified' = simp
           /\ file_paths' = simp.files \o simp.dirs
           /\ chunks' = AddChunks(simp.files \o simp.dirs, max_command_length)
    /\ saved_cwd' = cwd
    /\ cwd' = "repo"
    /\ chunk_index' = 1
    /\ pc' = IF chunks' = <<>> THEN "commit" ELSE "stage"
    /\ UNCHANGED <<git_files, max_batch_size, batches, max_command_length,
                   tree, skipped_files, original_cwd, commit_info_abs,
                   total_batches, batch_index, successful_batches, staged,
                   commits, invoked, exit_code, outcome>>

\* the loop of line 249 left after its first chunk
StageChunkOkOnlyFirst ==
    /\ pc = "stage"
    /\ invoked' = Append(invoked, [op |-> "add", batch |-> batch_index,
                                   chunk |-> chunk_index, ok |-> TRUE])
    /\ staged' = staged \cup StageEffect(chunks[chunk_index])
    /\ chunk_index' = chunk_index
    /\ pc' = "commit"
    /\ UNCHANGED <<git_files, max_batch_size, batches, batch_files,
                   simplified, file_paths, max_command_length, chunks, tree,
                   skipped_files, original_cwd, cwd, saved_cwd,
                   commit_info_abs, total_batches, batch_index,
                   temp_commit_file, commit_message, successful_batches,
                   commits, temp_files, exit_code, outcome>>

\* lines 249-266: one chunk is staged
StageChunkOk ==
    /\ pc = "stage"
    /\ invoked' = Append(invoked, [op |-> "add", batch |-> batch_index,
                                   chunk |-> chunk_index, ok |-> TRUE])
    /\ staged' = staged \cup StageEffect(chunks[chunk_index])
    /\ IF chunk_index < Len(chunks)
       THEN chunk_index' = chunk_index + 1 /\ pc' = "stage"
       ELSE chunk_index' = chunk_index /\ pc' = "commit"
    /\ UNCHANGED <<git_files, max_batch_size, batches, batch_files,
                   simplified, file_paths, max_command_length, chunks, tree,
                   skipped_files, original_cwd, cwd, saved_cwd,
                   commit_info_abs, total_batches, batch_index,
                   temp_commit_file, commit_message, successful_batches,
                   commits, temp_files, exit_code, outcome>>

\* lines 267-272, 301-304, 334-338, 440-442: staging a chunk fails, the batch fails
StageChunkFails ==
    /\ pc = "stage"
    /\ invoked' = Append(invoked, [op |-> "add", batch |-> batch_index,
                                   chunk |-> chunk_index, ok |-> FALSE])
    /\ cwd' = saved_cwd
    /\ temp_files' = RemoveTemp(temp_files, saved_cwd, temp_commit_file)
    /\ pc' = AfterFailedBatch(batch_index).pc
    /\ batch_index' = AfterFailedBatch(batch_index).i
    /\ UNCHANGED <<git_files, max_batch_size, batches, batch_files,
                   simplified, file_paths, max_command_length, chunks, tree,
                   skipped_files, original_cwd, saved_cwd, commit_info_abs,
                   total_batches, chunk_index, temp_commit_file,
                   commit_message, successful_batches, staged, commits,
                   exit_code, outcome>>

\* lines 305-319, 334-338, 433-439: the commit is made from what is staged
CommitOk ==
    /\ pc = "commit"
    /\ staged # {}
    /\ MessageReadable
    /\ invoked' = Append(invoked, [op |-> "commit", batch |-> batch_index,
                                   chunk |-> 0, ok |-> TRUE])
    /\ commits' = Append(commits, [batch |-> batch_index, files |-> staged,
                                   file |-> temp_commit_file,
                                   message |-> commit_message])
    /\ staged' = {}
    /\ cwd' = saved_cwd
    /\ temp_files' = RemoveTemp(temp_files, saved_cwd, temp_commit_file)
    /\ successful_batches' = successful_batches + 1
    /\ pc' = AfterCommittedBatch(batch_index).pc
    /\ batch_index' = AfterCommittedBatch(batch_index).i
    /\ UNCHANGED <<git_files, max_batch_size, batches, batch_files,
                   simplified, file_paths, max_command_length, chunks, tree,
                   skipped_files, original_cwd, saved_cwd, commit_info_abs,
                   total_batches, chunk_index, temp_commit_file,
                   commit_message, exit_code, outcome>>

\* lines 320-329, 334-338, 440-442: the commit fails; the working directory is
\* not restored before the finally clause looks for the derived file
CommitFails ==
    /\ pc = "commit"
    /\ invoked' = Append(invoked, [op |-> "commit", batch |-> batch_index,
                                   chunk |-> 0, ok |-> FALSE])
    /\ temp_files' = RemoveTemp(temp_files, cwd, temp_commit_file)
    /\ pc' = AfterFailedBatch(batch_index).pc
    /\ batch_index' = AfterFailedBatch(batch_index).i
    /\ UNCHANGED <<git_files, max_batch_size, batches, batch_files,
                   simplified, file_paths, max_command_length, chunks, tree,
                   skipped_files, original_cwd, cwd, saved_cwd,
                   commit_info_abs, total_batches, chunk_index,
                   temp_commit_file, commit_message, successful_batches,
                   staged, commits, exit_code, outcome>>

\* lines 443-449, 341-358: every batch succeeded, the push succeeds
PushOk ==
    /\ pc = "after_loop"
    /\ AllSucceeded
    /\ invoked' = Append(invoked, [op |-> "push", batch |-> 0, chunk |-> 0, ok |-> TRUE])
    /\ saved_cwd' = cwd
    /\ pc' = "stats"
    /\ UNCHANGED <<git_files, max_batch_size, batches, batch_files,
                   simplified, file_paths, max_command_length, chunks, tree,
                   skipped_files, original_cwd, cwd, commit_info_abs,
                   total_batches, batch_index, chunk_index, temp_commit_file,
                   commit_message, successful_batches, staged, commits,
                   temp_files, exit_code, outcome>>

\* lines 443-451, 359-367: the push fails; the working directory is not restored
PushFails ==
    /\ pc = "after_loop"
    /\ AllSucceeded
    /\ invoked' = Append(invoked, [op |-> "push", batch |-> 0, chunk |-> 0, ok |-> FALSE])
    /\ saved_cwd' = cwd
    /\ cwd' = "repo"
    /\ pc' = "stats"
    /\ UNCHANGED <<git_files, max_batch_size, batches, batch_files,
                   simplified, file_paths, max_command_length, chunks, tree,
                   skipped_files, original_cwd, commit_info_abs,
                   total_batches, batch_index, chunk_index, temp_commit_file,
                   commit_message, successful_batches, staged, commits,
                   temp_files, exit_code, outcome>>

\* lines 452-456: a batch failed, nothing is pushed
NoPush ==
    /\ pc = "after_loop"
    /\ ~AllSucceeded
    /\ pc' = "stats"
    /\ UNCHANGED <<git_files, max_batch_size, batches, batch_files,
                   simplified, file_paths, max_command_length, chunks, tree,
                   skipped_files, original_cwd, cwd, saved_cwd,
                   commit_info_abs, total_batches, batch_index, chunk_index,
                   temp_commit_file, commit_message, successful_batches,
                   staged, commits, invoked, temp_files, exit_code, outcome>>

\* lines 462-476 and __exit__: the statistics, cleanup_temp_files, the end of main
Finish ==
    /\ pc = "stats"
    /\ temp_files' = CleanupTempFiles(temp_files, cwd, total_batches)
    /\ cwd' = original_cwd
    /\ Exit(FinalStatus(successful_batches, total_batches), "done")
    /\ UNCHANGED <<git_files, max_batch_size, batches, batch_files,
                   simplified, file_paths, max_command_length, chunks, tree,
                   skipped_files, original_cwd, saved_cwd, commit_info_abs,
                   total_batches, batch_index, chunk_index, temp_commit_file,
                   commit_message, successful_batches, staged, commits,
                   invoked>>

\* the handler of lines 17-20 with sys.exit(0)
InterruptExitsZero ==
    /\ pc \in {"discover", "plan", "derive", "stage", "commit", "after_loop", "stats"}
    /\ cwd' = original_cwd
    /\ temp_files' = IF pc \in {"stage", "commit"}
                     THEN RemoveTemp(temp_files, original_cwd, temp_commit_file)
                     ELSE temp_files
    /\ Exit(0, "interrupted")
    /\ UNCHANGED <<git_files, max_batch_size, batches, batch_files,
                   simplified, file_paths, max_command_length, chunks, tree,
                   skipped_files, original_cwd, saved_cwd, commit_info_abs,
                   total_batches, batch_index, chunk_index, temp_commit_file,
                   commit_message, successful_batches, staged, commits,
                   invoked>>

\* lines 17-20: SIGINT; the handler restores the working directory and raises
\* SystemExit(1), which runs the finally clause of execute_git_add_commit when
\* the batch is being staged or committed
Interrupt ==
    /\ pc \in {"discover", "plan", "derive", "stage", "commit", "after_loop", "stats"}
    /\ cwd' = original_cwd
    /\ temp_files' = IF pc \in {"stage", "commit"}
                     THEN RemoveTemp(temp_files, original_cwd, temp_commit_file)
                     ELSE temp_files
    /\ Exit(1, "interrupted")
    /\ UNCHANGED <<git_files, max_batch_size, batches, batch_files,
                   simplified, file_paths, max_command_length, chunks, tree,
                   skipped_files, original_cwd, saved_cwd, commit_info_abs,
                   total_batches, batch_index, chunk_index, temp_commit_file,
                   commit_message, successful_batches, staged, commits,
                   invoked>>

Next ==
    \/ StartUsage
    \/ StartNoTemplate
    \/ StartOk
    \/ DiscoverNothing
    \/ Discover
    \/ Plan
    \/ DeriveUnreadable
    \/ \E written \in BOOLEAN : BeginBatch(written)
    \/ StageChunkOk
    \/ StageChunkFails
    \/ CommitOk
    \/ CommitFails
    \/ PushOk
    \/ PushFails
    \/ NoPush
    \/ Finish
    \/ Interrupt

Spec == Init /\ [][Next]_vars

----------------------------------------------------------------------------
(* Properties of the run *)

\* the stage and commit invocations that failed
FailedSteps ==
    {k \in DOMAIN invoked : invoked[k].op \in {"add", "commit"} /\ ~invoked[k].ok}

Pushes == {k \in DOMAIN invoked : invoked[k].op = "push"}

\* batch i was staged chunk by chunk and committed without a failure
BatchDone(i) ==
    /\ \E k \in DOMAIN invoked :
          invoked[k].op = "commit" /\ invoked[k].batch = i /\ invoked[k].ok
    /\ \A k \in DOMAIN invoked : invoked[k].batch = i => invoked[k].ok

AllBatchesDone == total_batches >= 1 /\ \A i \in 1 .. total_batches : BatchDone(i)

\* C3: a skipped path (size above the ceiling) is never staged and never part
\* of a commit.
C3_SkippedNeverStaged ==
    \A p \in Range(skipped_files) : p \notin staged /\ p \notin CommittedPaths

\* C6: a failed stage or commit invocation is the last external invocation of
\* the run: nothing is staged or committed for a later batch, nothing is pushed.
C6_FailedIsTerminal ==
    \A k \in FailedSteps : k = Len(invoked)

\* the second chunk of batch 2 of 3 failed to stage and the run went to its end
C6_Witness ==
    /\ pc = "exited"
    /\ outcome = "done"
    /\ total_batches = 3
    /\ \E k \in FailedSteps :
          invoked[k].op = "add" /\ invoked[k].batch = 2 /\ invoked[k].chunk = 2

\* C7: push is invoked at most once, only after every batch of the plan was
\* staged and committed, and always then once the loop has ended; after a push,
\* failed or not, the count of successful batches is the number of batches.
C7_PushOnceIffAllCommitted ==
    /\ Cardinality(Pushes) <= 1
    /\ Pushes # {} => AllBatchesDone
    /\ (pc = "stats" \/ outcome = "done") => (Pushes # {} <=> AllBatchesDone)
    /\ Pushes # {} =>
          /\ successful_batches = total_batches
          /\ Len(commits) = total_batches

\* three batches committed, then the push failed
C7_Witness ==
    /\ pc = "exited"
    /\ outcome = "done"
    /\ total_batches = 3
    /\ \E k \in Pushes : ~invoked[k].ok

\* C8: the exit status of a run in which a batch failed to stage or to commit
\* is not zero.
C8_FailureExitsNonZero ==
    (pc = "exited" /\ FailedSteps # {}) => exit_code # 0

C10_MessageFileGone ==
    \A f \in temp_files :
        f[2] # 0 => (pc \in {"stage", "commit"} /\ f[2] = batch_index)

----------------------------------------------------------------------------
(* Properties of the run: working directory, messages, interrupts, order *)

\* C11: whenever control is back in the pipeline after discovery, after a
\* batch's stage and commit steps or after the push, the working directory is
\* the one the process started with.
C11_CwdRestored ==
    pc \in {"plan", "derive", "after_loop", "stats"} => cwd = original_cwd

\* C12: in a plan of more than one batch, a commit made from a derived message
\* file is the commit of the batch at its own position k of the run and
\* carries the marker k/N.
C12_MarkersInOrder ==
    \A k \in DOMAIN commits :
        (total_batches > 1 /\ commits[k].file # 0) =>
            /\ commits[k].batch = k
            /\ commits[k].file = k
            /\ commits[k].message = k

\* three batches committed from their derived files and the run went to its end
C12_Witness ==
    /\ pc = "exited"
    /\ total_batches = 3
    /\ Len(commits) = 3
    /\ \A k \in DOMAIN commits : commits[k].file # 0

\* C13: in a plan of exactly one batch the message is the template itself
\* (its path, its text without a marker), no derived file is on disk, and the
\* template file stays on disk.
C13_SingleBatchUsesTemplate ==
    total_batches = 1 =>
        /\ temp_commit_file = 0
        /\ commit_message = 0
        /\ temp_files = {<<MessageDir(original_cwd), 0>>}
        /\ \A k \in DOMAIN commits : commits[k].file = 0 /\ commits[k].message = 0

\* the single batch was committed and the run went to its end
C13_Witness ==
    /\ pc = "exited"
    /\ outcome = "done"
    /\ total_batches = 1
    /\ Len(commits) = 1

C15_StagesOnlyOwnFiles ==
    /\ \A p \in staged :
          \A j \in DOMAIN batches : j # batch_index => p \notin PathSet(batches[j])
    /\ pc = "commit" => staged # {}

\* the chunks batch_git_add_files builds for batch i of the plan
ChunksOfBatch(i) ==
    AddChunks(simplify_batch_files(batches[i], git_files).files
                  \o simplify_batch_files(batches[i], git_files).dirs,
              max_command_length)

AddStep(i, c, ok) == [op |-> "add", batch |-> i, chunk |-> c, ok |-> ok]
CommitStep(i, ok) == [op |-> "commit", batch |-> i, chunk |-> 0, ok |-> ok]

\* C16: in the log of invocations, chunk c > 1 of a batch directly follows the
\* successful staging of chunk c - 1 of that batch; the first chunk of batch
\* i > 1 directly follows the successful commit of batch i - 1; a commit
\* directly follows the successful staging of the last chunk of its batch; and
\* nothing follows a failed chunk.
C16_StagingOrder ==
    \A k \in DOMAIN invoked :
        /\ invoked[k].op = "add" =>
              /\ invoked[k].batch \in DOMAIN batches
              /\ invoked[k].chunk \in DOMAIN ChunksOfBatch(invoked[k].batch)
              /\ IF invoked[k].chunk > 1
                 THEN k > 1 /\ invoked[k - 1] =
                          AddStep(invoked[k].batch, invoked[k].chunk - 1, TRUE)
                 ELSE IF invoked[k].batch > 1
                      THEN k > 1 /\ invoked[k - 1] = CommitStep(invoked[k].batch - 1, TRUE)
                      ELSE k = 1
              /\ ~invoked[k].ok => k = Len(invoked)
        /\ invoked[k].op = "commit" =>
              /\ k > 1
              /\ invoked[k].batch \in DOMAIN batches
              /\ invoked[k - 1] =
                    AddStep(invoked[k].batch, Len(ChunksOfBatch(invoked[k].batch)), TRUE)

\* a batch of two chunks was staged and committed, then the next batch was staged
C16_Witness ==
    \E k \in DOMAIN invoked :
        /\ k >= 4
        /\ invoked[k].op = "add"
        /\ invoked[k - 1] = CommitStep(invoked[k].batch - 1, TRUE)
        /\ invoked[k - 2] = AddStep(invoked[k].batch - 1, 2, TRUE)
        /\ invoked[k - 3] = AddStep(invoked[k].batch - 1, 1, TRUE)

\* the commits are those of batches 1..k, counted by successful_batches, and
\* no invocation for a batch follows its successful commit
CommittedIsPrefix ==
    /\ \A k \in DOMAIN commits : commits[k].batch = k
    /\ Len(commits) <= total_batches
    /\ successful_batches = Len(commits)
    /\ Cardinality({k \in DOMAIN invoked :
                       invoked[k].op = "commit" /\ invoked[k].ok}) = Len(commits)
    /\ \A k, j \in DOMAIN invoked :
          (k < j /\ invoked[k].op = "commit" /\ invoked[k].ok)
              => invoked[j].batch # invoked[k].batch

\* C20: the committed batches are always a prefix 1..k of the plan with
\* successful_batches = k, no step takes a commit back, and a committed batch
\* is not staged or committed again.
C20_CommittedPrefixKept ==
    /\ []CommittedIsPrefix
    /\ [][/\ Len(commits') >= Len(commits)
          /\ SubSeq(commits', 1, Len(commits)) = commits]_vars

\* two batches committed, the third failed, and the run went to its end
C20_Witness ==
    /\ pc = "exited"
    /\ outcome = "done"
    /\ total_batches = 3
    /\ Len(commits) = 2
    /\ FailedSteps # {}

----------------------------------------------------------------------------
(* Properties of the plan: packing inside a directory, order of the batches *)

\* the directory a batch of the plan was built from
BatchDir(b) == b[1].dir

\* the batches of the plan built from directory d, in plan order
BatchesOfDir(d) == SelectSeq(batches, LAMBDA b : \E j \in DOMAIN b : b[j].dir = d)

\* the directories of the accepted list whose aggregate size exceeds the budget
OverBudgetDirs ==
    {d \in Range(DirKeys(git_files)) : DirSize(git_files, d) > max_batch_size}

\* the directories of the accepted list whose aggregate size is within the budget
WithinBudgetDirs ==
    {d \in Range(DirKeys(git_files)) : DirSize(git_files, d) <= max_batch_size}

\* first fit: the earliest-opened bin that still has room for f, 0 when none has
FirstFitBin(bins, f, max) ==
    IF \E k \in DOMAIN bins : SumSizes(bins[k]) + f.size <= max
    THEN CHOOSE k \in DOMAIN bins :
            /\ SumSizes(bins[k]) + f.size <= max
            /\ \A j \in 1 .. k - 1 : ~(SumSizes(bins[j]) + f.size <= max)
    ELSE 0

RECURSIVE FirstFitFrom(_, _, _)
FirstFitFrom(files, bins, max) ==
    IF files = <<>>
    THEN bins
    ELSE IF FirstFitBin(bins, Head(files), max) = 0
         THEN FirstFitFrom(Tail(files), Append(bins, <<Head(files)>>), max)
         ELSE FirstFitFrom(Tail(files),
                           [bins EXCEPT ![FirstFitBin(bins, Head(files), max)] =
                                Append(@, Head(files))],
                           max)

\* textbook first-fit-decreasing over one directory's files
FirstFitDecreasing(files, max) ==
    FirstFitFrom(Sorted(files, [f \in Range(files) |-> f.size], TRUE), <<>>, max)

\* the batches of a sequence as a set of path sets
BinSets(bins) == {PathSet(bins[k]) : k \in DOMAIN bins}

\* C17 as stated: the batches of every over-budget directory are the bins of
\* first-fit-decreasing over that directory's files.
C17_FirstFitDecreasing ==
    pc = "planned" =>
        \A d \in OverBudgetDirs :
            BinSets(BatchesOfDir(d)) =
                BinSets(FirstFitDecreasing(DirFiles(git_files, d), max_batch_size))

\* the position of path p in the accepted list
PosOf(p) == CHOOSE k \in DOMAIN git_files : git_files[k].path = p

\* C17, amended: the batches of every over-budget directory, read one after
\* the other, are that directory's files in descending size (equal sizes in
\* list order); a batch of several files is within the budget; and a batch is
\* closed exactly when the next file does not fit into it (next fit: only the
\* most recently opened batch is tried).
C17_NextFitDecreasing ==
    pc = "planned" =>
        \A d \in OverBudgetDirs :
            /\ Len(Concat(BatchesOfDir(d))) = Len(DirFiles(git_files, d))
            /\ Range(Concat(BatchesOfDir(d))) = Range(DirFiles(git_files, d))
            /\ \A k, j \in DOMAIN Concat(BatchesOfDir(d)) :
                  k < j =>
                      \/ Concat(BatchesOfDir(d))[k].size > Concat(BatchesOfDir(d))[j].size
                      \/ /\ Concat(BatchesOfDir(d))[k].size = Concat(BatchesOfDir(d))[j].size
                         /\ PosOf(Concat(BatchesOfDir(d))[k].path)
                                < PosOf(Concat(BatchesOfDir(d))[j].path)
            /\ \A k \in DOMAIN BatchesOfDir(d) :
                  /\ BatchesOfDir(d)[k] # <<>>
                  /\ Len(BatchesOfDir(d)[k]) >= 2 =>
                        SumSizes(BatchesOfDir(d)[k]) <= max_batch_size
                  /\ k < Len(BatchesOfDir(d)) =>
                        SumSizes(BatchesOfDir(d)[k]) + BatchesOfDir(d)[k + 1][1].size
                            > max_batch_size

\* a directory split into a first batch of one file and a second batch whose
\* last file would still have fitted into the first
C17_Witness ==
    /\ pc = "planned"
    /\ \E d \in OverBudgetDirs :
          /\ Len(BatchesOfDir(d)) = 2
          /\ Len(BatchesOfDir(d)[1]) = 1
          /\ Len(BatchesOfDir(d)[2]) = 2
          /\ BatchesOfDir(d)[2][2].size >= 1
          /\ BatchesOfDir(d)[1][1].size + BatchesOfDir(d)[2][2].size <= max_batch_size
          /\ BatchesOfDir(d)[1][1].size > BatchesOfDir(d)[2][1].size

\* C18: every directory whose aggregate size is within the budget is exactly
\* one batch of the plan, and that batch is the directory's accepted files.
C18_WithinBudgetDirIsOneBatch ==
    pc = "planned" =>
        \A d \in WithinBudgetDirs :
            /\ Len(BatchesOfDir(d)) = 1
            /\ BatchesOfDir(d)[1] = DirFiles(git_files, d)

\* a directory of two files filling the budget exactly, next to a split one
C18_Witness ==
    /\ pc = "planned"
    /\ max_batch_size >= 2
    /\ \E d \in WithinBudgetDirs :
          /\ Len(DirFiles(git_files, d)) = 2
          /\ DirSize(git_files, d) = max_batch_size
          /\ \A f \in Range(DirFiles(git_files, d)) : f.size >= 1
    /\ OverBudgetDirs # {}

\* batch k of the plan is a whole directory
IsWhole(k) == BatchDir(batches[k]) \in WithinBudgetDirs

\* C19: whole-directory batches come first, in ascending directory size; the
\* batches of split directories follow, directory by directory in descending
\* directory size, and the first batch of a split directory holds its largest
\* file.
C19_PlanOrder ==
    pc = "planned" =>
        /\ \A k, j \in DOMAIN batches :
              (k < j /\ IsWhole(j)) =>
                  /\ IsWhole(k)
                  /\ DirSize(git_files, BatchDir(batches[k]))
                        <= DirSize(git_files, BatchDir(batches[j]))
        /\ \A k, j \in DOMAIN batches :
              (k < j /\ ~IsWhole(k)) =>
                  DirSize(git_files, BatchDir(batches[k]))
                      >= DirSize(git_files, BatchDir(batches[j]))
        /\ \A k, l, j \in DOMAIN batches :
              (k < l /\ l < j /\ BatchDir(batches[k]) = BatchDir(batches[j])) =>
                  BatchDir(batches[l]) = BatchDir(batches[k])
        /\ \A d \in OverBudgetDirs :
              \A f \in Range(DirFiles(git_files, d)) :
                  BatchesOfDir(d)[1][1].size >= f.size

\* two whole directories listed larger first, then a split directory whose
\* largest file is listed last
C19_Witness ==
    /\ pc = "planned"
    /\ Len(batches) >= 3
    /\ IsWhole(1) /\ IsWhole(2)
    /\ DirSize(git_files, BatchDir(batches[1])) < DirSize(git_files, BatchDir(batches[2]))
    /\ \E k, j \in DOMAIN git_files :
          /\ k < j
          /\ git_files[k].dir = BatchDir(batches[2])
          /\ git_files[j].dir = BatchDir(batches[1])
    /\ ~IsWhole(Len(batches))

====
